---- MODULE Spec2Model ----
(***************************************************************************)
(* Model of app.py: the Flask handlers register() and validate() running   *)
(* concurrently (at most NumWorkers requests at a time) against the two    *)
(* MongoDB collections                                                     *)
(* registration_collection and validation_collection, the Google Apps      *)
(* Script endpoints (ledger sync) and the SMTP server (notification sink). *)
(*                                                                         *)
(* Every call to the database, to requests.post and to SMTP is one atomic  *)
(* step; the handler code between two such calls is local to the request   *)
(* and is folded into the step that follows it.  The collections are       *)
(* created with db['...'] only, so MongoDB enforces uniqueness of _id and  *)
(* of nothing else.  Database calls are assumed to succeed.                *)
(***************************************************************************)
EXTENDS Integers, Sequences, FiniteSets, Bags, TLC

\* ---------------------------------------------------------------- bounds
NumWorkers == 2
MaxRequests == 3

\* ------------------------------------------------------------ input data
RegNums == {"R100", "R200"}

required_fields ==
    {"name", "degree", "class_section", "year", "register_number", "email", "phone"}

Asha ==
    [name |-> "Asha", degree |-> "BE", class_section |-> "A", year |-> "2",
     email |-> "a@x.com", phone |-> "111"]

Bala ==
    [name |-> "Bala", degree |-> "BSc", class_section |-> "B", year |-> "3",
     email |-> "b@x.com", phone |-> "222"]

\* request.form of a POST /register: the seven fields, all strings
Form(r, p) ==
    [f \in required_fields |-> IF f = "register_number" THEN r ELSE p[f]]

\* R100 may be submitted with either set of details, R200 with one
Forms == {Form("R100", Asha), Form("R100", Bala), Form("R200", Bala)}

None == <<>>

\* ------------------------------------------------------------- ObjectId
ObjectId(n) == "ObjectId(" \o ToString(n) \o ")"

ObjectIds == {ObjectId(n) : n \in 1..(MaxRequests + 1)}

\* str(ObjectId)
str(v) == ToString(CHOOSE n \in 1..(MaxRequests + 1) : ObjectId(n) = v)

\* ObjectIdEncoder.default leaving the ObjectId as it is
ObjectIdEncoder_Identity(v) == v

\* ObjectIdEncoder.default: ObjectId -> str, every other value as it is
ObjectIdEncoder(v) == IF v \in ObjectIds THEN str(v) ELSE v

\* ------------------------------------------------------------ JSON text
\* A text is either not JSON at all, or the serialisation of a Python value:
\* a dict (with its items) or a value of another type.
Garbage == [parses |-> FALSE, py |-> "none", items |-> None]

JsonText(py, items) == [parses |-> TRUE, py |-> py, items |-> items]

json_dumps(obj) ==
    JsonText("dict", [k \in DOMAIN obj |-> ObjectIdEncoder(obj[k])])

\* json.loads: JSONDecodeError on text that is not JSON, else the value
json_loads(text) ==
    IF text.parses
    THEN [raised |-> FALSE, py |-> text.py, value |-> text.items]
    ELSE [raised |-> TRUE, py |-> "none", value |-> None]

\* generate_qr_code: the image carries the text, a scan gives it back
generate_qr_code(data) == [image |-> "PNG", data |-> data]

scan(img) == img.data

\* ------------------------------------------------------------- qr_data
\* request.json.get('qr_data'): None, the empty string, or a text
QrNone == [form |-> "None", text |-> Garbage]
QrEmpty == [form |-> "empty", text |-> Garbage]
QrStr(t) == [form |-> "str", text |-> t]

Without(d, f) == [k \in (DOMAIN d) \ {f} |-> d[k]]

IncompleteTexts ==
    {JsonText("dict", Without(Form("R100", Asha), f)) : f \in required_fields}

HandTexts ==
    {Garbage, JsonText("int", None), JsonText("list", None)}
    \cup IncompleteTexts
    \cup {JsonText("dict", fm) : fm \in Forms}

\* --------------------------------------------------------------- state
VARIABLES
    registration_collection,   \* set of documents (dict with _id)
    validation_collection,     \* set of documents (dict with _id)
    nextId,                    \* ObjectId generator
    ledger,                    \* requests.post calls made so far, with the status answered
    outbox,                    \* send_email_with_qr calls made so far
    requests,                  \* the requests being handled: a bag of handler states
    last,                      \* the request answered last, with its response
    served,                    \* number of requests received
    accepted                   \* per register number: ACCEPTED responses returned

vars == <<registration_collection, validation_collection, nextId, ledger, outbox,
          requests, last, served, accepted>>

\* ---------------------------------------------------------- collections
Matching(coll, rn) == {d \in coll : d["register_number"] = rn}

\* collection.find_one({"register_number": rn}): a matching document or None
find_one(coll, rn) ==
    IF Matching(coll, rn) = {} THEN None ELSE CHOOSE d \in Matching(coll, rn) : TRUE

\* an insert that replaces the documents with the same register number
insert_one_Replacing(coll, doc, id) ==
    (coll \ Matching(coll, doc["register_number"])) \cup {doc @@ ("_id" :> id)}

\* collection.insert_one(doc): the document is stored under a fresh _id
insert_one(coll, doc, id) == coll \cup {doc @@ ("_id" :> id)}

\* ------------------------------------------------------------ responses
NoResponse ==
    [kind |-> "none", valid |-> FALSE, message |-> "", attendee |-> None, flash |-> {}]

jsonify(valid, message, attendee) ==
    [kind |-> "json", valid |-> valid, message |-> message, attendee |-> attendee,
     flash |-> {}]

redirect(flashes) ==
    [kind |-> "redirect", valid |-> FALSE, message |-> "index", attendee |-> None,
     flash |-> flashes]

render_template(name, flashes) ==
    [kind |-> "template", valid |-> FALSE, message |-> name, attendee |-> None,
     flash |-> flashes]

\* an exception no handler catches: Flask answers 500
Unhandled(exc) ==
    [kind |-> "error500", valid |-> FALSE, message |-> exc, attendee |-> None,
     flash |-> {}]

MsgNoData == "No QR data provided."
MsgInvalid == "Invalid QR code format."
MsgMissing == "Missing required information in QR code."
MsgNotFound == "Registration not found. Please register first."
MsgScanned == "This QR code has already been scanned."
MsgSheets == "Failed to save data to Google Sheets."
MsgOk == "Validation successful. Data saved."
FlashDuplicate == "You have already registered. Please check your details and try again."
FlashSheets == "Failed to save data to Google Sheets. Please try again later."
FlashEmail == "Failed to send email with QR code. Please contact the event organizers."

\* requests.post: a response with a status code, or an exception
PostOutcomes ==
    { [raised |-> FALSE, status_code |-> 200],
      [raised |-> FALSE, status_code |-> 500],
      [raised |-> TRUE, status_code |-> 0] }

\* What a request has observed and done so far: its kind, the register
\* number it is about, whether its input had all seven fields, whether an
\* ACCEPTED answer for that number had been returned when it was received,
\* the results of its lookups, the _id it inserted, its ledger posts (and the
\* status of the answer) and its mails.
NoHist ==
    [kind |-> "none", rn |-> "", wellformed |-> FALSE, afterAccepted |-> FALSE,
     sawRegistration |-> FALSE, sawNoValidation |-> FALSE, inserted |-> "",
     posts |-> 0, mails |-> 0, status |-> 0]

NoLast == [hist |-> NoHist, response |-> NoResponse]

\* A handler in progress: where it is, its local variables, its history.
Handler(label, h, q, info, data, js) ==
    [pc |-> label, hist |-> h, qr_data |-> q, attendee_info |-> info,
     validation_data |-> data, json_data |-> js]

InFlight == BagToSet(requests)

\* -------------------------------------------------------------- Init
Init ==
    /\ registration_collection = {}
    /\ validation_collection = {}
    /\ nextId = 1
    /\ ledger = {}
    /\ outbox = {}
    /\ requests = EmptyBag
    /\ last = NoLast
    /\ served = 0
    /\ accepted = [r \in RegNums |-> 0]

\* register(), line 103: is the register number already registered ?
RegisterLookup_Skipped(rn) == None

RegisterLookup(rn) == find_one(registration_collection, rn)

\* register(), line 119 comparing with 201
RegisterLedgerFailed_Not201(out) == out.status_code # 201

\* register(), line 119: the Apps Script answer counts as a failure unless 200
RegisterLedgerFailed(out) == out.status_code # 200

\* validate(), line 153: the registration the payload's number belongs to
ValidateRegistrationLookup_AnyNumber(rn) == [register_number |-> rn]

ValidateRegistrationLookup(rn) == find_one(registration_collection, rn)

\* validate(), line 158: an earlier check-in of the payload's number
ValidateValidationLookup_Skipped(rn) == None

ValidateValidationLookup(rn) == find_one(validation_collection, rn)

\* validate(), line 182 never seeing a failure
ValidateLedgerFailed_Never(out) == FALSE

\* validate(), line 182: the Apps Script answer counts as a failure unless 200
ValidateLedgerFailed_Not201(out) == out.status_code # 201

ValidateLedgerFailed(out) == out.status_code # 200

\* A free worker takes the next request.
CanReceive == BagCardinality(requests) < NumWorkers /\ served < MaxRequests

\* A request is received and its handler runs up to its next call.
Enter(new) ==
    /\ requests' = requests (+) SetToBag({new})
    /\ last' = last

\* A request is received and answered at once with r.
Answer(h, r) ==
    /\ requests' = requests
    /\ last' = [hist |-> h, response |-> r]

\* The handler req goes on to its next call.
Goto(req, new) ==
    /\ requests' = (requests (-) SetToBag({req})) (+) SetToBag({new})
    /\ last' = last

\* The handler req returns r: its worker is free again.
Return(req, h, r) ==
    /\ requests' = requests (-) SetToBag({req})
    /\ last' = [hist |-> h, response |-> r]

\* ------------------------------------------------------ POST /register
\* register(), lines 92-106: build attendee_info, look the number up,
\* refuse a duplicate.
RegisterFind(form) ==
    /\ CanReceive
    /\ served' = served + 1
    /\ LET existing_registration == RegisterLookup(form["register_number"])
           h == [NoHist EXCEPT !.kind = "register",
                               !.rn = form["register_number"],
                               !.wellformed = TRUE,
                               !.sawRegistration = (existing_registration # None)]
       IN  IF existing_registration # None
           THEN Answer(h, redirect({FlashDuplicate}))
           ELSE Enter(Handler("reg_insert", h, QrNone, form, None, Garbage))
    /\ UNCHANGED <<registration_collection, validation_collection, nextId, ledger,
                   outbox, accepted>>

\* register(), lines 108-115: insert_one, _id added to attendee_info, json.dumps
RegisterInsert(req) ==
    /\ req.pc = "reg_insert"
    /\ LET id == ObjectId(nextId)
           info == req.attendee_info @@ ("_id" :> id)
       IN  /\ registration_collection' =
                  insert_one(registration_collection, req.attendee_info, id)
           /\ Goto(req, Handler("reg_post", [req.hist EXCEPT !.inserted = id],
                                QrNone, info, None, json_dumps(info)))
    /\ nextId' = nextId + 1
    /\ UNCHANGED <<validation_collection, ledger, outbox, served, accepted>>

\* register(), lines 117-121: post to REGISTRATION_SCRIPT_URL, give up unless 200
RegisterPost(req, out) ==
    /\ req.pc = "reg_post"
    /\ ledger' = ledger \cup {[url |-> "REGISTRATION_SCRIPT_URL", data |-> req.json_data,
                            status |-> out.status_code]}
    /\ LET h == [req.hist EXCEPT !.posts = @ + 1, !.status = out.status_code]
       IN  IF out.raised
           THEN Return(req, h, Unhandled("RequestException"))
           ELSE IF RegisterLedgerFailed(out)
           THEN Return(req, h, redirect({FlashSheets}))
           ELSE Goto(req, [req EXCEPT !.pc = "reg_email", !.hist = h])
    /\ UNCHANGED <<registration_collection, validation_collection, nextId, outbox,
                   served, accepted>>

\* send_email_with_qr swallowing the SMTP failure without the flash
send_email_with_qr_Silent(name, register_number, recipient_email, qr_image, smtp_ok) ==
    [mail |-> [to |-> recipient_email, name |-> name,
               register_number |-> register_number, attachment |-> qr_image],
     flash |-> {}]

\* send_email_with_qr, lines 54-83: the message goes to the SMTP server; a
\* failure there is caught and flashed
send_email_with_qr(name, register_number, recipient_email, qr_image, smtp_ok) ==
    [mail |-> [to |-> recipient_email, name |-> name,
               register_number |-> register_number, attachment |-> qr_image],
     flash |-> IF smtp_ok THEN {} ELSE {FlashEmail}]

\* register(), lines 123-129: QR of json_data, mail it, confirmation page
RegisterEmail(req, smtp_ok) ==
    /\ req.pc = "reg_email"
    /\ LET qr_img == generate_qr_code(req.json_data)
           sent == send_email_with_qr(req.attendee_info["name"],
                                      req.attendee_info["register_number"],
                                      req.attendee_info["email"], qr_img, smtp_ok)
       IN  /\ outbox' = outbox \cup {sent.mail}
           /\ Return(req, [req.hist EXCEPT !.mails = @ + 1],
                     render_template("thanks.html", sent.flash))
    /\ UNCHANGED <<registration_collection, validation_collection, nextId, ledger,
                   served, accepted>>

\* ------------------------------------------------------ POST /validate
\* What a scanner may present: nothing, the empty string, a hand-made text,
\* or the text of a QR image that a registration has mailed.
QrInputs ==
    {QrNone, QrEmpty}
    \cup {QrStr(t) : t \in HandTexts}
    \cup {QrStr(scan(m.attachment)) : m \in outbox}

\* validate(), lines 148-149 checking the register number only
HasRequiredFields_OnlyNumber(info) == "register_number" \in DOMAIN info

\* validate(), lines 148-149: all seven fields are keys of the decoded dict
HasRequiredFields(info) == \A field \in required_fields : field \in DOMAIN info

\* validate(), lines 136-155: qr_data, json.loads, required fields, then the
\* lookup in registration_collection
ValidateFindReg(q) ==
    /\ CanReceive
    /\ served' = served + 1
    /\ LET loaded == json_loads(q.text)
           isDict == q.form = "str" /\ ~loaded.raised /\ loaded.py = "dict"
           complete == isDict /\ HasRequiredFields(loaded.value)
           register_number == IF complete THEN loaded.value["register_number"] ELSE ""
           existing_registration ==
               IF complete THEN ValidateRegistrationLookup(register_number)
               ELSE None
           h == [NoHist EXCEPT !.kind = "validate",
                               !.rn = register_number,
                               !.wellformed = complete,
                               !.afterAccepted = (register_number \in RegNums
                                                  /\ accepted[register_number] > 0),
                               !.sawRegistration = (existing_registration # None)]
       IN  IF q.form # "str"
           THEN Answer(h, jsonify(FALSE, MsgNoData, None))
           ELSE IF loaded.raised
           THEN Answer(h, jsonify(FALSE, MsgInvalid, None))
           ELSE IF loaded.py # "dict"
           THEN Answer(h, Unhandled("AttributeError"))
           ELSE IF ~complete
           THEN Answer(h, jsonify(FALSE, MsgMissing, None))
           ELSE IF existing_registration = None
           THEN Answer(h, jsonify(FALSE, MsgNotFound, None))
           ELSE Enter(Handler("val_findval", h, q, loaded.value, None, Garbage))
    /\ UNCHANGED <<registration_collection, validation_collection, nextId, ledger,
                   outbox, accepted>>

\* validate(), lines 157-174 with the insert moved before the lookup's test
ValidateFindVal_InsertFirst(req) ==
    /\ req.pc = "val_findval"
    /\ LET existing_validation ==
               ValidateValidationLookup(req.attendee_info["register_number"])
           data == [f \in required_fields |-> req.attendee_info[f]]
           id == ObjectId(nextId)
           withId == data @@ ("_id" :> str(id))
           h == [req.hist EXCEPT !.sawNoValidation = (existing_validation = None),
                                 !.inserted = id]
       IN  /\ validation_collection' = insert_one(validation_collection, data, id)
           /\ IF existing_validation # None
              THEN Return(req, h, jsonify(FALSE, MsgScanned, None))
              ELSE Goto(req, [req EXCEPT !.pc = "val_post", !.hist = h,
                                         !.validation_data = withId,
                                         !.json_data = json_dumps(withId)])
    /\ nextId' = nextId + 1
    /\ UNCHANGED <<registration_collection, ledger, outbox, served, accepted>>

\* validate(), lines 157-160: the lookup in validation_collection
ValidateFindVal(req) ==
    /\ req.pc = "val_findval"
    /\ LET existing_validation ==
               ValidateValidationLookup(req.attendee_info["register_number"])
           h == [req.hist EXCEPT !.sawNoValidation = (existing_validation = None)]
       IN  IF existing_validation # None
           THEN Return(req, h, jsonify(FALSE, MsgScanned, None))
           ELSE Goto(req, [req EXCEPT !.pc = "val_insert", !.hist = h])
    /\ UNCHANGED <<registration_collection, validation_collection, nextId, ledger,
                   outbox, served, accepted>>

\* validate(), lines 162-178 with validation_data taken from the stored
\* registration instead of the payload
ValidateInsert_FromRegistration(req) ==
    /\ req.pc = "val_insert"
    /\ LET reg == find_one(registration_collection,
                           req.attendee_info["register_number"])
           data == [f \in required_fields |-> reg[f]]
           id == ObjectId(nextId)
           withId == data @@ ("_id" :> str(id))
       IN  /\ validation_collection' = insert_one(validation_collection, data, id)
           /\ Goto(req, [req EXCEPT !.pc = "val_post",
                                    !.hist = [req.hist EXCEPT !.inserted = id],
                                    !.validation_data = withId,
                                    !.json_data = json_dumps(withId)])
    /\ nextId' = nextId + 1
    /\ UNCHANGED <<registration_collection, ledger, outbox, served, accepted>>

\* validate(), lines 162-178: validation_data from the payload's fields,
\* insert_one, _id as a string, json.dumps
ValidateInsert(req) ==
    /\ req.pc = "val_insert"
    /\ LET data == [f \in required_fields |-> req.attendee_info[f]]
           id == ObjectId(nextId)
           withId == data @@ ("_id" :> str(id))
       IN  /\ validation_collection' = insert_one(validation_collection, data, id)
           /\ Goto(req, [req EXCEPT !.pc = "val_post",
                                    !.hist = [req.hist EXCEPT !.inserted = id],
                                    !.validation_data = withId,
                                    !.json_data = json_dumps(withId)])
    /\ nextId' = nextId + 1
    /\ UNCHANGED <<registration_collection, ledger, outbox, served, accepted>>

\* validate(), lines 180-185: post to VALIDATION_SCRIPT_URL, valid only on 200
ValidatePost(req, out) ==
    /\ req.pc = "val_post"
    /\ ledger' = ledger \cup {[url |-> "VALIDATION_SCRIPT_URL", data |-> req.json_data,
                            status |-> out.status_code]}
    /\ LET h == [req.hist EXCEPT !.posts = @ + 1, !.status = out.status_code]
       IN  IF out.raised
           THEN /\ Return(req, h, Unhandled("RequestException"))
                /\ accepted' = accepted
           ELSE IF ValidateLedgerFailed(out)
           THEN /\ Return(req, h, jsonify(FALSE, MsgSheets, None))
                /\ accepted' = accepted
           ELSE /\ Return(req, h, jsonify(TRUE, MsgOk, req.validation_data))
                /\ accepted' = [accepted EXCEPT ![h.rn] = @ + 1]
    /\ UNCHANGED <<registration_collection, validation_collection, nextId, outbox,
                   served>>

\* ---------------------------------------------------------------- Next
Next ==
    \/ \E form \in Forms : RegisterFind(form)
    \/ \E req \in InFlight : RegisterInsert(req)
    \/ \E req \in InFlight, out \in PostOutcomes : RegisterPost(req, out)
    \/ \E req \in InFlight, smtp_ok \in BOOLEAN : RegisterEmail(req, smtp_ok)
    \/ \E q \in QrInputs : ValidateFindReg(q)
    \/ \E req \in InFlight : ValidateFindVal(req)
    \/ \E req \in InFlight : ValidateInsert(req)
    \/ \E req \in InFlight, out \in PostOutcomes : ValidatePost(req, out)

Spec == Init /\ [][Next]_vars

\* =============================================================== claims
\* The request answered last was a POST /validate whose payload decoded to a
\* dict with all seven fields and register number r.
LastValidated(r) ==
    last.hist.kind = "validate" /\ last.hist.wellformed /\ last.hist.rn = r

LastAccepted == last.response.kind = "json" /\ last.response.valid

LastRejected(message) == last.response = jsonify(FALSE, message, None)

\* The document that the request answered last has inserted is in coll.
LastInsertedIn(coll) == \E d \in coll : d["_id"] = last.hist.inserted

\* C1: of two validation requests with a well-formed payload for the same
\* register number that run concurrently, at most one is answered ACCEPTED:
\* a request answered ACCEPTED that was received before any ACCEPTED answer
\* for its number is the only one answered ACCEPTED for that number.
C1_NeverBothAccepted ==
    \A r \in RegNums :
        (LastValidated(r) /\ LastAccepted /\ ~last.hist.afterAccepted)
            => accepted[r] <= 1

\* C2: the validation collection holds at most one document per register
\* number.
C2_AtMostOneValidationRecord ==
    \A r \in RegNums : Cardinality(Matching(validation_collection, r)) <= 1

\* C3: a validation request with a well-formed payload for r that is
\* received after an ACCEPTED answer for r never gets to the insert, inserts
\* nothing, posts nothing, and is answered REJECTED "already scanned".
C3_AfterAcceptedAlreadyUsed ==
    /\ \A req \in InFlight :
           (req.hist.kind = "validate" /\ req.hist.afterAccepted)
               => req.pc = "val_findval" /\ req.hist.inserted = ""
    /\ \A r \in RegNums :
           (LastValidated(r) /\ last.hist.afterAccepted)
               => /\ LastRejected(MsgScanned)
                  /\ last.hist.inserted = ""
                  /\ last.hist.posts = 0

C3_Witness ==
    \E r \in RegNums :
        /\ LastValidated(r)
        /\ last.hist.afterAccepted
        /\ LastRejected(MsgScanned)
        /\ accepted[r] = 1

\* C4 as stated: a validation request with a well-formed payload for a
\* registered r that finds no validation record for r is answered ACCEPTED
\* with its validation record stored.
C4_FirstValidationAccepted ==
    \A r \in RegNums :
        (LastValidated(r) /\ last.hist.sawRegistration /\ last.hist.sawNoValidation)
            => LastAccepted /\ LastInsertedIn(validation_collection)

\* C4 amended: such a request is answered ACCEPTED, with its validation
\* record for r stored and returned, when the ledger call answers 200.
C4_FirstValidationAcceptedOn200 ==
    \A r \in RegNums :
        (LastValidated(r) /\ last.hist.sawRegistration /\ last.hist.sawNoValidation
         /\ last.hist.posts = 1 /\ last.hist.status = 200)
            => /\ LastAccepted
               /\ last.response.attendee["register_number"] = r
               /\ \E d \in Matching(validation_collection, r) :
                      /\ d["_id"] = last.hist.inserted
                      /\ last.response.attendee["_id"] = str(d["_id"])

C4_Witness ==
    \E r \in RegNums :
        /\ LastValidated(r)
        /\ last.hist.sawRegistration /\ last.hist.sawNoValidation
        /\ last.hist.status = 200
        /\ LastAccepted
        /\ LastInsertedIn(validation_collection)

\* C5: the registration collection holds at most one document per register
\* number.
C5_AtMostOneAttendeeRecord ==
    \A r \in RegNums : Cardinality(Matching(registration_collection, r)) <= 1

\* The step receives a request and answers it at once.
AnsweredAtOnce == served' = served + 1 /\ requests' = requests

\* C6: a POST /register for a register number that is in the registration
\* collection never gets to the insert: it is answered at once with the
\* duplicate redirect, and that step changes neither collection, posts
\* nothing to the ledger and mails nothing.
C6_DuplicateRejectedUnchanged ==
    [][/\ \A req \in BagToSet(requests') :
              (served' = served + 1 /\ req.pc = "reg_insert"
               /\ (req \notin InFlight \/ requests'[req] > requests[req]))
                  => Matching(registration_collection, req.hist.rn) = {}
       /\ (AnsweredAtOnce /\ last'.hist.kind = "register")
              => /\ Matching(registration_collection, last'.hist.rn) # {}
                 /\ last'.response = redirect({FlashDuplicate})
                 /\ last'.hist.inserted = ""
                 /\ last'.hist.posts = 0
                 /\ last'.hist.mails = 0
                 /\ UNCHANGED <<registration_collection, validation_collection,
                                ledger, outbox>>]_vars

C6_Witness ==
    /\ last.hist.kind = "register"
    /\ last.hist.sawRegistration
    /\ last.response = redirect({FlashDuplicate})
    /\ Matching(registration_collection, last.hist.rn) # {}

\* C7: a validation request answered REJECTED, whatever the reason, leaves
\* no validation record of its own in the validation collection.
C7_RejectedLeavesNoRecord ==
    \A r \in RegNums :
        (LastValidated(r) /\ last.response.kind = "json" /\ ~last.response.valid)
            => ~LastInsertedIn(validation_collection)

\* C8: every document of the validation collection has the register number
\* of some document of the registration collection.
C8_ValidationHasRegistration ==
    \A d \in validation_collection :
        Matching(registration_collection, d["register_number"]) # {}

C8_Witness ==
    \E d \in validation_collection :
        Matching(registration_collection, d["register_number"]) # {}

\* C9: every document of the validation collection has the seven fields of
\* a registration document with the same register number.
C9_ValidationCopiesRegistration ==
    \A d \in validation_collection :
        \E a \in Matching(registration_collection, d["register_number"]) :
            \A f \in required_fields : d[f] = a[f]

\* C10: every answered POST /validate has a {valid, message} response.
C10_AlwaysStructuredResponse ==
    last.hist.kind = "validate" => last.response.kind = "json"

\* q is text that json.loads does not parse.
Malformed(q) == q.form = "str" /\ ~q.text.parses

\* q is the text of a JSON object that lacks the required field f.
Omits(q, f) ==
    /\ q.form = "str" /\ q.text.parses /\ q.text.py = "dict"
    /\ f \notin DOMAIN q.text.items

Stores == <<registration_collection, validation_collection>>

\* The hand-made inputs: a mailed QR text always parses and has every field.
HandInputs == {QrStr(t) : t \in HandTexts}

Decodable(q) ==
    /\ q.form = "str" /\ q.text.parses /\ q.text.py = "dict"
    /\ required_fields \subseteq DOMAIN q.text.items

\* C12: a validation of a decodable payload whose register number has no
\* document in the registration collection is answered REJECTED
\* "registration not found", whatever its other fields; the request ends
\* there and neither collection changes.
C12_UnknownRegistrationRejected ==
    [][\A q \in QrInputs :
          (/\ Decodable(q)
           /\ Matching(registration_collection, q.text.items["register_number"]) = {}
           /\ ValidateFindReg(q))
              => /\ last'.response = jsonify(FALSE, MsgNotFound, None)
                 /\ last'.hist.inserted = ""
                 /\ requests' = requests
                 /\ UNCHANGED Stores]_vars

C12_Witness ==
    /\ last.hist.kind = "validate"
    /\ last.hist.wellformed
    /\ ~last.hist.sawRegistration
    /\ last.response = jsonify(FALSE, MsgNotFound, None)
    /\ Matching(registration_collection, last.hist.rn) = {}
    /\ validation_collection = {}

\* The request answered last was a POST /register that inserted a document.
LastRegistered ==
    last.hist.kind = "register" /\ last.hist.inserted # ""

\* The mail that carries the QR image of document d.
MailOf(d) ==
    [to |-> d["email"], name |-> d["name"], register_number |-> d["register_number"],
     attachment |-> generate_qr_code(json_dumps(d))]

\* C13 as stated: a registration request that has inserted its document has
\* handed the QR image of it to the SMTP server when it is answered.
C13_InsertedRegistrationMailed ==
    LastRegistered
        => /\ last.hist.mails = 1
           /\ \E d \in registration_collection :
                  d["_id"] = last.hist.inserted /\ MailOf(d) \in outbox

\* C13 amended: a registration request whose number was not registered
\* inserts its document before it posts to the ledger, and when the ledger
\* answers 200 it has mailed the QR image of the encoded document to the
\* attendee's address when it is answered.
C13_InsertedRegistrationMailedOn200 ==
    /\ \A req \in InFlight :
           req.pc \in {"reg_post", "reg_email"}
               => /\ req.attendee_info \in registration_collection
                  /\ req.attendee_info["_id"] = req.hist.inserted
    /\ (LastRegistered /\ last.hist.posts = 1 /\ last.hist.status = 200)
           => /\ last.hist.mails = 1
              /\ last.response.kind = "template"
              /\ \E d \in registration_collection :
                     d["_id"] = last.hist.inserted /\ MailOf(d) \in outbox

C13_Witness ==
    /\ LastRegistered
    /\ last.hist.status = 200
    /\ last.hist.mails = 1
    /\ \E d \in registration_collection :
           d["_id"] = last.hist.inserted /\ MailOf(d) \in outbox

\* C14: when the SMTP server fails during a registration, the request still
\* answers with the confirmation page, carrying the e-mail warning, and the
\* document it inserted stays in the registration collection as it was.
C14_NotificationFailureKeepsRecord ==
    [][\A req \in InFlight :
          RegisterEmail(req, FALSE)
              => /\ last'.response = render_template("thanks.html", {FlashEmail})
                 /\ last'.hist.inserted = req.attendee_info["_id"]
                 /\ req.attendee_info \in registration_collection'
                 /\ registration_collection' = registration_collection]_vars

C14_Witness ==
    /\ LastRegistered
    /\ last.response = render_template("thanks.html", {FlashEmail})
    /\ LastInsertedIn(registration_collection)

\* What a scan of the mailed QR image m decodes to.
Decoded(m) == json_loads(scan(m.attachment))

\* C15 as stated: the payload mailed at registration decodes to the record
\* that was encoded (the stored document, with or without its _id).
C15_RoundTripExact ==
    \A m \in outbox :
        /\ ~Decoded(m).raised
        /\ \E d \in registration_collection :
               Decoded(m).value = d \/ Decoded(m).value = Without(d, "_id")

\* C15 amended: the payload mailed at registration decodes to a dict that
\* has the seven required fields with the values of the stored document,
\* and besides them the _id of that document as a string.
C15_RoundTripOnRequiredFields ==
    \A m \in outbox :
        /\ ~Decoded(m).raised
        /\ Decoded(m).py = "dict"
        /\ HasRequiredFields(Decoded(m).value)
        /\ DOMAIN Decoded(m).value = required_fields \cup {"_id"}
        /\ \E d \in registration_collection :
               /\ \A f \in required_fields : Decoded(m).value[f] = d[f]
               /\ Decoded(m).value["_id"] = str(d["_id"])
               /\ Decoded(m).value["_id"] # d["_id"]

C15_Witness ==
    \E m \in outbox : \E d \in registration_collection :
        /\ HasRequiredFields(Decoded(m).value)
        /\ \A f \in required_fields : Decoded(m).value[f] = d[f]
        /\ m.to = d["email"]

\* The ledger answered the last request's post with a status other than 200.
LastLedgerRefused ==
    last.hist.posts = 1 /\ last.hist.status \notin {0, 200}

\* C16: a validation request that passed the decode, registration and
\* already-scanned checks and whose ledger post is answered with a status
\* other than 200 is answered REJECTED "failed to save", and the validation
\* document it inserted is still in the validation collection.
C16_LedgerFailureNotRolledBack ==
    \A r \in RegNums :
        (LastValidated(r) /\ LastLedgerRefused)
            => /\ last.hist.sawRegistration /\ last.hist.sawNoValidation
               /\ LastRejected(MsgSheets)
               /\ \E d \in Matching(validation_collection, r) :
                      d["_id"] = last.hist.inserted

C16_Witness ==
    \E r \in RegNums :
        /\ LastValidated(r)
        /\ LastLedgerRefused
        /\ LastRejected(MsgSheets)
        /\ LastInsertedIn(validation_collection)

\* The step answers a request.
Answers ==
    \/ AnsweredAtOnce
    \/ BagCardinality(requests') < BagCardinality(requests)

\* The rejections of validate() that come before its insert.
EarlyRejections ==
    {jsonify(FALSE, m, None) :
        m \in {MsgNoData, MsgInvalid, MsgMissing, MsgNotFound, MsgScanned}}

\* C17: the step that answers a validation request with "no data", "invalid
\* format", "missing information", "registration not found" or "already
\* scanned" changes neither collection and posts nothing, and that request
\* has inserted and posted nothing before; and the registration collection
\* changes only in the insert step of a registration request.
C17_OnlyInsertBranchChangesState ==
    [][/\ (Answers /\ last'.hist.kind = "validate"
                   /\ last'.response \in EarlyRejections)
              => /\ UNCHANGED <<registration_collection, validation_collection,
                                ledger, outbox>>
                 /\ last'.hist.inserted = ""
                 /\ last'.hist.posts = 0
       /\ (registration_collection' # registration_collection)
              => \E req \in InFlight :
                     req.hist.kind = "register" /\ RegisterInsert(req)]_vars

C17_Witness ==
    /\ last.hist.kind = "validate"
    /\ LastRejected(MsgScanned)
    /\ last.hist.inserted = ""
    /\ last.hist.posts = 0
    /\ Cardinality(Matching(validation_collection, last.hist.rn)) = 1

\* C18: every document of either collection is still there, with the same
\* fields, after every step.
C18_StoresOnlyGrow ==
    [][/\ registration_collection \subseteq registration_collection'
       /\ validation_collection \subseteq validation_collection']_vars

C18_Witness ==
    /\ registration_collection # {}
    /\ validation_collection # {}
    /\ served >= 3
    /\ requests = EmptyBag

\* The registration ledger answered the post of document d with a status
\* other than 200.
LedgerRefused(d) ==
    \E p \in ledger :
        /\ p.url = "REGISTRATION_SCRIPT_URL"
        /\ p.data = json_dumps(d)
        /\ p.status \notin {0, 200}

\* C19: a document whose registration ledger post was answered with a status
\* other than 200 has no QR mailed for it, and no mail at all carries its
\* register number.
C19_FailedRegistrationNeverMailed ==
    \A d \in registration_collection :
        LedgerRefused(d)
            => /\ MailOf(d) \notin outbox
               /\ \A m \in outbox : m.register_number # d["register_number"]

\* The same for the register numbers that have a single document.
C19_FailedRegistrationNeverMailedIfUnique ==
    \A d \in registration_collection :
        (LedgerRefused(d)
         /\ Cardinality(Matching(registration_collection, d["register_number"])) = 1)
            => /\ MailOf(d) \notin outbox
               /\ \A m \in outbox : m.register_number # d["register_number"]

\* C20: a validation request that is answered ACCEPTED for a register number
\* has itself inserted a document for that number which is in the validation
\* collection, and on the seven required fields the attendee of its response,
\* the scanned payload and that document are equal.
C20_AcceptedReturnsInsertedRecord ==
    [][\A req \in InFlight : \A out \in PostOutcomes :
          (ValidatePost(req, out) /\ last'.response.kind = "json"
           /\ last'.response.valid)
              => LET payload == json_loads(req.qr_data.text).value
                 IN  \E d \in validation_collection' :
                        /\ d["_id"] = req.hist.inserted
                        /\ d["register_number"] = last'.hist.rn
                        /\ \A f \in required_fields :
                               /\ last'.response.attendee[f] = payload[f]
                               /\ last'.response.attendee[f] = d[f]]_vars

\* An ACCEPTED answer whose attendee agrees with the document its request
\* inserted for the register number.
C20_Witness ==
    /\ LastAccepted
    /\ \E d \in validation_collection :
           /\ d["_id"] = last.hist.inserted
           /\ d["register_number"] = last.hist.rn
           /\ \A f \in required_fields : last.response.attendee[f] = d[f]

====
